---- MODULE Spec2Model ----
(***************************************************************************)
(* Toshi Home API: the request handlers of src/main.py and the validation  *)
(* schemas of src/schemas.py, over a document store.                       *)
(*                                                                         *)
(* Text is a sequence of one-character strings, so that parsing, regular   *)
(* expression matching and formatting are computed character by character. *)
(* JSON and store values are records tagged with their type in field t.    *)
(***************************************************************************)
EXTENDS Integers, Sequences, FiniteSets, TLC

VARIABLES
    dbAvailable,   \* database.db is not None (set once at process start)
    handleKind,    \* what attribute access on a collection handle yields
    homestays,     \* the "homestay" collection, in natural (insertion) order
    bookings,      \* the "booking" collection
    nextId,        \* the store's identifier generator
    op,            \* the handler that served the last request
    req,           \* the input of the request being served / last served
    resp,          \* the response of the last request
    bpc,           \* create_booking: position of the request in the handler
    stages,        \* create_booking: the stages the request has passed
    parsed,        \* create_booking: the locals ci, co
    inserts,       \* insert operations performed by the request
    finds,         \* find operations the request issued to the store, in order
    served         \* search requests served so far

vars == <<dbAvailable, handleKind, homestays, bookings, nextId, op, req, resp,
          bpc, stages, parsed, inserts, finds, served>>

(***************************************************************************)
(* Bounds of the model.                                                    *)
(***************************************************************************)
MaxBookings == 2      \* bookings persisted in one run
MaxListings == 1      \* listings created in one run
MaxStoreDocs == 3     \* documents in the initial homestay collection
MaxRequests == 1      \* search requests served in one run

(***************************************************************************)
(* Values.                                                                 *)
(***************************************************************************)
StrV(s) == [t |-> "str", s |-> s]
IntV(n) == [t |-> "int", n |-> n]
NoneV == [t |-> "none"]
Missing == [t |-> "missing"]
Oid(n) == [t |-> "oid", id |-> n]
DateTime(y, m, d, hh, mi) == [t |-> "datetime", dt |-> <<y, m, d, hh, mi>>]
DictV(f) == [t |-> "dict", items |-> f]
ListV(s) == [t |-> "list", elems |-> s]

EmptyDict == [k \in {} |-> 0]

Min(a, b) == IF a < b THEN a ELSE b
Abs(n) == IF n < 0 THEN 0 - n ELSE n

(***************************************************************************)
(* Characters.                                                             *)
(***************************************************************************)
Digits == <<"0", "1", "2", "3", "4", "5", "6", "7", "8", "9">>
Uppers == <<"A", "B", "C", "D", "E", "F", "G", "H", "I", "J", "K", "L", "M",
            "N", "O", "P", "Q", "R", "S", "T", "U", "V", "W", "X", "Y", "Z">>
Lowers == <<"a", "b", "c", "d", "e", "f", "g", "h", "i", "j", "k", "l", "m",
            "n", "o", "p", "q", "r", "s", "t", "u", "v", "w", "x", "y", "z">>

IndexOf(c, seq) == IF \E i \in DOMAIN seq : seq[i] = c
                   THEN CHOOSE i \in DOMAIN seq : seq[i] = c
                   ELSE 0

IsDigit(c) == IndexOf(c, Digits) > 0
DigitVal(c) == IndexOf(c, Digits) - 1
LowerChar(c) == IF IndexOf(c, Uppers) > 0 THEN Lowers[IndexOf(c, Uppers)] ELSE c
LowerText(s) == [i \in DOMAIN s |-> LowerChar(s[i])]

AllDigits(s) == \A i \in DOMAIN s : IsDigit(s[i])

RECURSIVE NumVal(_)
NumVal(s) == IF s = <<>> THEN 0
             ELSE 10 * NumVal(SubSeq(s, 1, Len(s) - 1)) + DigitVal(s[Len(s)])

Pad2(n) == <<Digits[((n \div 10) % 10) + 1], Digits[(n % 10) + 1]>>
Pad4(n) == Pad2(n \div 100) \o Pad2(n % 100)

(***************************************************************************)
(* datetime.fromisoformat and datetime comparison (Python standard         *)
(* library, called at src/main.py:152-154).  The forms covered are the     *)
(* ones every Python 3 release with fromisoformat accepts:                 *)
(*   YYYY-MM-DD, YYYY-MM-DD?HH:MM, YYYY-MM-DD?HH:MM(+|-)HH:MM              *)
(* where ? is any one separator character.  Any other text is a            *)
(* ValueError; the request inputs below are of these forms or are rejected *)
(* by every release.                                                       *)
(***************************************************************************)
ValueError == [ok |-> FALSE, y |-> 0, m |-> 0, d |-> 0, hh |-> 0, mi |-> 0,
               aware |-> FALSE, off |-> 0]

IsLeap(y) == (y % 4 = 0) /\ ((y % 100 # 0) \/ (y % 400 = 0))
DaysInMonth(y, m) == IF m = 2 THEN (IF IsLeap(y) THEN 29 ELSE 28)
                     ELSE IF m \in {4, 6, 9, 11} THEN 30 ELSE 31

RECURSIVE DaysBeforeMonth(_, _)
DaysBeforeMonth(y, m) == IF m = 1 THEN 0
                         ELSE DaysBeforeMonth(y, m - 1) + DaysInMonth(y, m - 1)

DaysBeforeYear(y) == (y - 1) * 365 + ((y - 1) \div 4) - ((y - 1) \div 100)
                     + ((y - 1) \div 400)

ToOrdinal(y, m, d) == DaysBeforeYear(y) + DaysBeforeMonth(y, m) + d

DateShape(s) == /\ Len(s) >= 10
                /\ AllDigits(SubSeq(s, 1, 4))
                /\ s[5] = "-"
                /\ AllDigits(SubSeq(s, 6, 7))
                /\ s[8] = "-"
                /\ AllDigits(SubSeq(s, 9, 10))

DateFieldsOk(s) == LET y == NumVal(SubSeq(s, 1, 4))
                       m == NumVal(SubSeq(s, 6, 7))
                       d == NumVal(SubSeq(s, 9, 10))
                   IN  /\ y >= 1
                       /\ m \in 1..12
                       /\ d >= 1
                       /\ d <= DaysInMonth(y, m)

HHMMShape(s) == /\ Len(s) = 5
                /\ AllDigits(SubSeq(s, 1, 2))
                /\ s[3] = ":"
                /\ AllDigits(SubSeq(s, 4, 5))
                /\ NumVal(SubSeq(s, 1, 2)) \in 0..23
                /\ NumVal(SubSeq(s, 4, 5)) \in 0..59

Minutes(s) == 60 * NumVal(SubSeq(s, 1, 2)) + NumVal(SubSeq(s, 4, 5))

fromisoformat(s) ==
    IF ~(DateShape(s) /\ DateFieldsOk(s)) THEN ValueError
    ELSE LET date == [ok |-> TRUE,
                      y |-> NumVal(SubSeq(s, 1, 4)),
                      m |-> NumVal(SubSeq(s, 6, 7)),
                      d |-> NumVal(SubSeq(s, 9, 10)),
                      hh |-> 0, mi |-> 0, aware |-> FALSE, off |-> 0]
         IN  IF Len(s) = 10 THEN date
             ELSE IF Len(s) = 16 /\ HHMMShape(SubSeq(s, 12, 16))
                  THEN [date EXCEPT !.hh = NumVal(SubSeq(s, 12, 13)),
                                    !.mi = NumVal(SubSeq(s, 15, 16))]
             ELSE IF /\ Len(s) = 22
                     /\ HHMMShape(SubSeq(s, 12, 16))
                     /\ s[17] \in {"+", "-"}
                     /\ HHMMShape(SubSeq(s, 18, 22))
                  THEN [date EXCEPT !.hh = NumVal(SubSeq(s, 12, 13)),
                                    !.mi = NumVal(SubSeq(s, 15, 16)),
                                    !.aware = TRUE,
                                    !.off = IF s[17] = "+"
                                            THEN Minutes(SubSeq(s, 18, 22))
                                            ELSE 0 - Minutes(SubSeq(s, 18, 22))]
             ELSE ValueError

\* The instant of a datetime in minutes; an aware one is taken to UTC.
Instant(dt) == (ToOrdinal(dt.y, dt.m, dt.d) * 1440) + (dt.hh * 60) + dt.mi - dt.off

\* co <= ci on two datetimes: "TypeError" when one is offset-aware and the
\* other offset-naive, otherwise the truth value.
DateTimeLE(co, ci) == IF co.aware # ci.aware THEN "TypeError"
                      ELSE IF Instant(co) <= Instant(ci) THEN "True" ELSE "False"

(***************************************************************************)
(* The store adapter (database.py: db, create_document; the document store *)
(* behind it).  insert assigns the next identifier and appends the record  *)
(* as a document; with no live connection nothing can be written.          *)
(***************************************************************************)
HexDigits == <<"0", "1", "2", "3", "4", "5", "6", "7", "8", "9",
               "a", "b", "c", "d", "e", "f">>

\* str(ObjectId): the identifier's hexadecimal text.
OidStr(n) == <<"6", "5", HexDigits[((n \div 16) % 16) + 1], HexDigits[(n % 16) + 1]>>

\* The adapter's check for a live connection.
StoreLive == dbAvailable

\* model_dump() of a validated record plus the identifier the store assigns.
InsertedDoc(record, n) == [k \in (DOMAIN record) \cup {"_id"} |->
                              IF k = "_id" THEN Oid(n) ELSE record[k]]

(***************************************************************************)
(* Booking schema (src/schemas.py:27-35), as pydantic validates it: the    *)
(* set of fields in error.                                                 *)
(***************************************************************************)
Count(c, s) == Cardinality({i \in DOMAIN s : s[i] = c})

\* EmailStr: one "@", a non-empty local part, a dotted domain.
EmailSyntaxOk(s) ==
    /\ Count("@", s) = 1
    /\ LET at == IndexOf("@", s)
           dom == SubSeq(s, at + 1, Len(s))
       IN  /\ at > 1
           /\ Len(dom) >= 3
           /\ Count(".", dom) >= 1
           /\ dom[1] # "."
           /\ dom[Len(dom)] # "."

RequiredStrBad(x) == x.t # "str"
OptionalStrBad(x) == x.t \notin {"str", "none", "missing"}
IntRangeBad(x, lo, hi) == ~(x.t = "int" /\ x.n >= lo /\ x.n <= hi)

BookingErrors(p) ==
    {f \in {"homestay_id", "guest_name", "check_in", "check_out"} : RequiredStrBad(p[f])}
    \cup (IF p.guest_email.t = "str" /\ EmailSyntaxOk(p.guest_email.s)
          THEN {} ELSE {"guest_email"})
    \cup (IF IntRangeBad(p.guests, 1, 20) THEN {"guests"} ELSE {})
    \cup (IF OptionalStrBad(p.notes) THEN {"notes"} ELSE {})

(***************************************************************************)
(* Responses.                                                              *)
(***************************************************************************)
NoResp == [status |-> 0, error |-> "none", detail |-> "", fields |-> {}, body |-> EmptyDict]

HTTPException(code, err, text) ==
    [status |-> code, error |-> err, detail |-> text, fields |-> {}, body |-> EmptyDict]

\* An exception no handler catches: the framework answers 500.
Unhandled(err) ==
    [status |-> 500, error |-> err, detail |-> "Internal Server Error", fields |-> {},
     body |-> EmptyDict]

\* The framework's 422, naming every field in error.
ValidationFailure(flds) ==
    [status |-> 422, error |-> "ValidationError", detail |-> "", fields |-> flds,
     body |-> EmptyDict]

Created(b) == [status |-> 201, error |-> "none", detail |-> "", fields |-> {}, body |-> b]

(***************************************************************************)
(* create_booking (src/main.py:148-160), one action per stage.             *)
(***************************************************************************)
Pipeline == <<"Received", "SchemaValidated", "DatesParsed", "DateOrderChecked",
              "Persisted">>

Idle == bpc \in {"Idle", "Failed", "Persisted"}

BookingUnchanged == UNCHANGED <<dbAvailable, handleKind, homestays, nextId, served>>

ReceiveBooking(p) ==
    /\ Idle
    /\ Len(bookings) < MaxBookings
    /\ bpc' = "Received"
    /\ stages' = <<"Received">>
    /\ op' = "create_booking"
    /\ req' = p
    /\ resp' = NoResp
    /\ parsed' = <<ValueError, ValueError>>
    /\ inserts' = 0
    /\ finds' = <<>>
    /\ UNCHANGED bookings
    /\ BookingUnchanged

\* payload: Booking -- the framework validates the body before the handler runs.
ValidateBooking ==
    /\ bpc = "Received"
    /\ IF BookingErrors(req) = {}
       THEN /\ bpc' = "SchemaValidated"
            /\ stages' = Append(stages, "SchemaValidated")
            /\ UNCHANGED resp
       ELSE /\ bpc' = "Failed"
            /\ resp' = ValidationFailure(BookingErrors(req))
            /\ UNCHANGED stages
    /\ UNCHANGED <<op, req, parsed, inserts, finds, bookings>>
    /\ BookingUnchanged

\* ci = fromisoformat(check_in); co = fromisoformat(check_out), inside the try.
ParseDates ==
    /\ bpc = "SchemaValidated"
    /\ LET ci == fromisoformat(req.check_in.s)
           co == fromisoformat(req.check_out.s)
       IN  IF ci.ok /\ co.ok
           THEN /\ bpc' = "DatesParsed"
                /\ stages' = Append(stages, "DatesParsed")
                /\ parsed' = <<ci, co>>
                /\ UNCHANGED resp
           ELSE /\ bpc' = "Failed"
                /\ resp' = HTTPException(400, "MalformedDate",
                                         "Invalid date format. Use YYYY-MM-DD")
                /\ UNCHANGED <<stages, parsed>>
    /\ UNCHANGED <<op, req, inserts, finds, bookings>>
    /\ BookingUnchanged

\* Variant: co < ci, which lets equal dates through.
DateOrderResult_StrictLess(ci, co) ==
    IF co.aware # ci.aware THEN "TypeError"
    ELSE IF Instant(co) < Instant(ci) THEN "True" ELSE "False"

\* The test of line 154, co <= ci.
DateOrderResult(ci, co) == DateTimeLE(co, ci)

\* if co <= ci: raise HTTPException(400); only ValueError is caught.
CheckDateOrder ==
    /\ bpc = "DatesParsed"
    /\ LET r == DateOrderResult(parsed[1], parsed[2])
       IN  IF r = "False"
           THEN /\ bpc' = "DateOrderChecked"
                /\ stages' = Append(stages, "DateOrderChecked")
                /\ UNCHANGED resp
           ELSE /\ bpc' = "Failed"
                /\ resp' = IF r = "True"
                           THEN HTTPException(400, "InvalidDateRange",
                                              "check_out must be after check_in")
                           ELSE Unhandled("TypeError")
                /\ UNCHANGED stages
    /\ UNCHANGED <<op, req, parsed, inserts, finds, bookings>>
    /\ BookingUnchanged

\* _id = create_document("booking", payload); return {"id": _id, "status": "created"}
PersistBooking ==
    /\ bpc = "DateOrderChecked"
    /\ IF StoreLive
       THEN /\ bookings' = Append(bookings, InsertedDoc(req, nextId))
            /\ nextId' = nextId + 1
            /\ inserts' = inserts + 1
            /\ bpc' = "Persisted"
            /\ stages' = Append(stages, "Persisted")
            /\ resp' = Created([id |-> OidStr(nextId), status |-> "created"])
       ELSE /\ bpc' = "Failed"
            /\ resp' = Unhandled("StoreUnavailable")
            /\ UNCHANGED <<bookings, nextId, inserts, stages>>
    /\ UNCHANGED <<op, req, parsed, finds, dbAvailable, handleKind, homestays, served>>

(***************************************************************************)
(* Booking requests of the model.                                          *)
(***************************************************************************)
D0228 == <<"2", "0", "2", "4", "-", "0", "2", "-", "2", "8">>
D0229 == <<"2", "0", "2", "4", "-", "0", "2", "-", "2", "9">>
D0301 == <<"2", "0", "2", "4", "-", "0", "3", "-", "0", "1">>
D0230 == <<"2", "0", "2", "4", "-", "0", "2", "-", "3", "0">>
DShort == <<"2", "0", "2", "4", "-", "3", "-", "0", "1">>
DEmpty == <<>>
DNaive == D0229 \o <<"T", "1", "0", ":", "0", "0">>
DAware == D0229 \o <<"T", "1", "0", ":", "0", "0", "+", "0", "2", ":", "0", "0">>

DateStrings == {D0228, D0229, D0301, D0230, DShort, DEmpty, DNaive, DAware}

GoodEmail == <<"a", "@", "b", ".", "c", "o">>
BadEmail == <<"a", "b", ".", "c", "o">>

BaseBooking == [homestay_id |-> StrV(OidStr(1)), guest_name |-> StrV(<<"A", "n", "n">>),
                guest_email |-> StrV(GoodEmail), guests |-> IntV(2),
                check_in |-> StrV(D0228), check_out |-> StrV(D0229),
                notes |-> NoneV]

BookingPayloads ==
    {[BaseBooking EXCEPT !.check_in = StrV(a), !.check_out = StrV(b)] :
        a \in DateStrings, b \in DateStrings}
    \cup {[BaseBooking EXCEPT !.homestay_id = Missing],
          [BaseBooking EXCEPT !.guest_email = StrV(BadEmail)],
          [BaseBooking EXCEPT !.guests = IntV(0)],
          [BaseBooking EXCEPT !.guests = IntV(21)],
          [BaseBooking EXCEPT !.check_in = Missing],
          [BaseBooking EXCEPT !.check_out = IntV(20240301)]}

InitBooking ==
    /\ dbAvailable \in BOOLEAN
    /\ handleKind = "subcollection"
    /\ homestays = <<>>
    /\ bookings = <<>>
    /\ nextId = 1
    /\ op = "none"
    /\ req = BaseBooking
    /\ resp = NoResp
    /\ bpc = "Idle"
    /\ stages = <<>>
    /\ parsed = <<ValueError, ValueError>>
    /\ inserts = 0
    /\ finds = <<>>
    /\ served = 0

NextBooking ==
    \/ \E p \in BookingPayloads : ReceiveBooking(p)
    \/ ValidateBooking
    \/ ParseDates
    \/ CheckDateOrder
    \/ PersistBooking

SpecBooking == InitBooking /\ [][NextBooking]_vars

(***************************************************************************)
(* Claims about create_booking.                                            *)
(***************************************************************************)
BookingDone == op = "create_booking" /\ bpc \in {"Failed", "Persisted"}

SchemaValid == BookingErrors(req) = {}

\* A calendar date in the form YYYY-MM-DD.
IsCalendarDate(s) == Len(s) = 10 /\ DateShape(s) /\ DateFieldsOk(s)

DayOf(s) == ToOrdinal(NumVal(SubSeq(s, 1, 4)), NumVal(SubSeq(s, 6, 7)),
                      NumVal(SubSeq(s, 9, 10)))

StageError(stage) ==
    CASE stage = "SchemaValidated" -> "ValidationError"
      [] stage = "DatesParsed" -> "MalformedDate"
      [] stage = "DateOrderChecked" -> "InvalidDateRange"
      [] OTHER -> "none"

\* The stage a failed request did not pass.
FailedStage == Pipeline[Len(stages) + 1]

RejectedRange ==
    /\ bpc = "Failed"
    /\ resp.status = 400
    /\ resp.error = "InvalidDateRange"
    /\ resp.detail = "check_out must be after check_in"
    /\ inserts = 0

RejectedMalformed ==
    /\ bpc = "Failed"
    /\ resp.status = 400
    /\ resp.error = "MalformedDate"
    /\ resp.detail = "Invalid date format. Use YYYY-MM-DD"
    /\ inserts = 0

BookingCreated ==
    /\ bpc = "Persisted"
    /\ resp.status = 201
    /\ DOMAIN resp.body = {"id", "status"}
    /\ resp.body.status = "created"
    /\ resp.body.id = OidStr(bookings[Len(bookings)]["_id"].id)
    /\ bookings[Len(bookings)] = InsertedDoc(req, nextId - 1)
    /\ inserts = 1

\* C1: booking creation is the linear pipeline Received -> SchemaValidated ->
\* DatesParsed -> DateOrderChecked -> Persisted: the stages passed are a prefix
\* of it, an insert happens only once every stage has passed, a request that
\* fails at a stage ends with that stage's error and no insert, and a
\* successful request performs exactly one insert.
C1_BookingPipeline ==
    op = "create_booking" =>
        /\ \E n \in 0..Len(Pipeline) : stages = SubSeq(Pipeline, 1, n)
        /\ inserts > 0 => stages = Pipeline
        /\ bpc = "Persisted" => inserts = 1 /\ stages = Pipeline
        /\ bpc = "Failed" =>
              /\ inserts = 0
              /\ FailedStage # "Persisted" => resp.error = StageError(FailedStage)

C3_MalformedDate ==
    (BookingDone /\ SchemaValid
        /\ (~IsCalendarDate(req.check_in.s) \/ ~IsCalendarDate(req.check_out.s)))
    => RejectedMalformed

(***************************************************************************)
(* Homestay schema (src/schemas.py:14-24), as pydantic validates it: the   *)
(* set of fields in error.  Prices and ratings are whole numbers here.     *)
(***************************************************************************)
NumberBad(x, lo) == ~(x.t = "int" /\ x.n >= lo)
StrListBad(x) == ~(x.t = "missing" \/ (x.t = "list" /\ \A i \in DOMAIN x.elems : x.elems[i].t = "str"))
OptionalRangeBad(x, lo, hi) ==
    ~(x.t \in {"none", "missing"} \/ (x.t = "int" /\ x.n >= lo /\ x.n <= hi))

HomestayErrors(p) ==
    {f \in {"title", "location", "country"} : RequiredStrBad(p[f])}
    \cup (IF OptionalStrBad(p.description) THEN {"description"} ELSE {})
    \cup (IF NumberBad(p.price_per_night, 0) THEN {"price_per_night"} ELSE {})
    \cup (IF IntRangeBad(p.max_guests, 1, 20) THEN {"max_guests"} ELSE {})
    \cup {f \in {"amenities", "images"} : StrListBad(p[f])}
    \cup (IF OptionalRangeBad(p.rating, 0, 5) THEN {"rating"} ELSE {})

\* The validated record: absent optional fields take their defaults.
HomestayRecord(p) ==
    [f \in DOMAIN p |->
        IF p[f].t # "missing" THEN p[f]
        ELSE IF f \in {"amenities", "images"} THEN ListV(<<>>) ELSE NoneV]

(***************************************************************************)
(* create_homestay (src/main.py:138-144).                                  *)
(***************************************************************************)
\* hasattr(db[collection], 'ObjectId'): true of a handle whose attribute
\* access yields a sub-collection, false of one without such an attribute.
HasObjectIdAttr == handleKind = "subcollection"

\* db[collection].ObjectId(_id): a sub-collection handle is not callable.
RefetchRaises == HasObjectIdAttr

\* find operations of the fallback branch: two nested find_one calls.
RefetchFinds(n) ==
    IF HasObjectIdAttr THEN <<>>
    ELSE <<[collection |-> "homestay", filter |-> ("_id" :> ("$exists" :> TRUE)), limit |-> 1],
           [collection |-> "homestay", filter |-> ("_id" :> Oid(n)), limit |-> 1]>>

create_homestay(p) ==
    /\ Len(homestays) < MaxListings
    /\ op' = "create_homestay"
    /\ req' = p
    /\ IF HomestayErrors(p) # {}
       THEN /\ resp' = ValidationFailure(HomestayErrors(p))
            /\ inserts' = 0
            /\ finds' = <<>>
            /\ UNCHANGED <<homestays, nextId>>
       ELSE IF ~StoreLive
       THEN /\ resp' = Unhandled("StoreUnavailable")
            /\ inserts' = 0
            /\ finds' = <<>>
            /\ UNCHANGED <<homestays, nextId>>
       ELSE /\ homestays' = Append(homestays, InsertedDoc(HomestayRecord(p), nextId))
            /\ nextId' = nextId + 1
            /\ inserts' = 1
            /\ finds' = RefetchFinds(nextId)
            /\ resp' = IF RefetchRaises
                       THEN Unhandled("TypeError")
                       ELSE Created([id |-> OidStr(nextId)])
    /\ UNCHANGED <<dbAvailable, handleKind, bookings, bpc, stages, parsed, served>>

(***************************************************************************)
(* Listing requests of the model.                                          *)
(***************************************************************************)
TCabin == <<"C", "a", "b", "i", "n">>
THakone == <<"H", "a", "k", "o", "n", "e">>
TJapan == <<"J", "a", "p", "a", "n">>

BaseHomestay == [title |-> StrV(TCabin), description |-> Missing,
                 location |-> StrV(THakone), country |-> StrV(TJapan),
                 price_per_night |-> IntV(80), max_guests |-> IntV(2),
                 amenities |-> Missing, images |-> Missing, rating |-> NoneV]

HomestayPayloads ==
    {[BaseHomestay EXCEPT !.title = t, !.location = l, !.country = c,
                          !.price_per_night = IntV(pr), !.max_guests = IntV(g),
                          !.rating = r] :
        t \in {Missing, StrV(<<>>), StrV(TCabin)},
        l \in {Missing, StrV(THakone)},
        c \in {Missing, StrV(TJapan)},
        pr \in {-1, 0, 80},
        g \in {0, 1, 20, 21},
        r \in {NoneV, IntV(-1), IntV(0), IntV(5), IntV(6)}}

InitListing ==
    /\ dbAvailable \in BOOLEAN
    /\ handleKind \in {"subcollection", "plain"}
    /\ homestays = <<>>
    /\ bookings = <<>>
    /\ nextId = 1
    /\ op = "none"
    /\ req = BaseHomestay
    /\ resp = NoResp
    /\ bpc = "Idle"
    /\ stages = <<>>
    /\ parsed = <<ValueError, ValueError>>
    /\ inserts = 0
    /\ finds = <<>>
    /\ served = 0

NextListing == \E p \in HomestayPayloads : create_homestay(p)

SpecListing == InitListing /\ [][NextListing]_vars

(***************************************************************************)
(* Claims about create_homestay.                                           *)
(***************************************************************************)
\* C4: for every input that satisfies the Homestay schema, with the store
\* available, create-listing persists one document and answers 201 with only
\* the new identifier, a non-empty string; nothing after the insert turns the
\* request into a failure.
C4_CreateListing ==
    (op = "create_homestay" /\ HomestayErrors(req) = {} /\ dbAvailable) =>
        /\ inserts = 1
        /\ homestays[Len(homestays)] = InsertedDoc(HomestayRecord(req), nextId - 1)
        /\ resp.status = 201
        /\ DOMAIN resp.body = {"id"}
        /\ resp.body.id = OidStr(nextId - 1)
        /\ Len(resp.body.id) > 0

\* The field constraints of the data model: title required and non-empty,
\* location and country required, price_per_night >= 0, max_guests in 1..20,
\* rating in 0..5 when given.
DataModelViolations(p) ==
    (IF p.title.t # "str" \/ p.title.s = <<>> THEN {"title"} ELSE {})
    \cup {f \in {"location", "country"} : p[f].t # "str"}
    \cup (IF p.price_per_night.t # "int" \/ p.price_per_night.n < 0
          THEN {"price_per_night"} ELSE {})
    \cup (IF p.max_guests.t # "int" \/ p.max_guests.n < 1 \/ p.max_guests.n > 20
          THEN {"max_guests"} ELSE {})
    \cup (IF p.rating.t = "int" /\ (p.rating.n < 0 \/ p.rating.n > 5)
          THEN {"rating"} ELSE {})

\* C5: an input that violates a single field constraint of the data model is
\* refused with a validation error naming that field, and nothing is inserted.
C5_SingleViolation ==
    (op = "create_homestay" /\ Cardinality(DataModelViolations(req)) = 1) =>
        /\ resp.status = 422
        /\ resp.error = "ValidationError"
        /\ resp.fields = DataModelViolations(req)
        /\ inserts = 0

(***************************************************************************)
(* The store's find: the filter language and the cursor limit.             *)
(* A filter maps keys to conditions; every key must hold (logical AND).    *)
(* $regex is covered for patterns made of literal characters, ".", a       *)
(* leading "^" and a trailing "$"; the request inputs below use no other   *)
(* metacharacter.                                                          *)
(***************************************************************************)
AnchoredStart(pat) == Len(pat) > 0 /\ pat[1] = "^"
AnchoredEnd(pat) == Len(pat) > 0 /\ pat[Len(pat)] = "$"
PatternCore(pat) == SubSeq(pat, (IF AnchoredStart(pat) THEN 2 ELSE 1),
                                (IF AnchoredEnd(pat) THEN Len(pat) - 1 ELSE Len(pat)))

CharMatches(pc, c, ignoreCase) ==
    \/ pc = "."
    \/ pc = c
    \/ ignoreCase /\ LowerChar(pc) = LowerChar(c)

MatchAt(core, text, i, ignoreCase) ==
    /\ i + Len(core) - 1 <= Len(text)
    /\ \A k \in 1..Len(core) : CharMatches(core[k], text[i + k - 1], ignoreCase)

RegexSearch(pat, text, ignoreCase) ==
    LET core == PatternCore(pat)
    IN  \E i \in 1..(Len(text) + 1) :
           /\ AnchoredStart(pat) => i = 1
           /\ MatchAt(core, text, i, ignoreCase)
           /\ AnchoredEnd(pat) => i + Len(core) - 1 = Len(text)

\* One field against one condition {"$regex", "$options"} or {"$gte", "$lte"}.
MatchCond(doc, field, cond) ==
    /\ field \in DOMAIN doc
    /\ "$regex" \in DOMAIN cond =>
          /\ doc[field].t = "str"
          /\ RegexSearch(cond["$regex"], doc[field].s, cond["$options"] = "i")
    /\ "$gte" \in DOMAIN cond => doc[field].t = "int" /\ doc[field].n >= cond["$gte"]
    /\ "$lte" \in DOMAIN cond => doc[field].t = "int" /\ doc[field].n <= cond["$lte"]

Matches(doc, filter) ==
    \A k \in DOMAIN filter :
        IF k = "$or"
        THEN \E i \in DOMAIN filter[k] : MatchCond(doc, filter[k][i].field, filter[k][i].cond)
        ELSE MatchCond(doc, k, filter[k])

RECURSIVE Select(_, _)
Select(docs, filter) ==
    IF docs = <<>> THEN <<>>
    ELSE IF Matches(Head(docs), filter)
         THEN <<Head(docs)>> \o Select(Tail(docs), filter)
         ELSE Select(Tail(docs), filter)

\* cursor.limit(n): 0 is no limit, a negative n limits to its magnitude.
Limited(docs, n) == IF n = 0 THEN docs ELSE SubSeq(docs, 1, Min(Abs(n), Len(docs)))

Find(filter, n) == Limited(Select(homestays, filter), n)

(***************************************************************************)
(* serialize_doc (src/main.py:22-30).                                      *)
(***************************************************************************)
\* datetime.isoformat(): YYYY-MM-DDTHH:MM:SS.
IsoFormat(dt) == Pad4(dt[1]) \o <<"-">> \o Pad2(dt[2]) \o <<"-">> \o Pad2(dt[3])
                 \o <<"T">> \o Pad2(dt[4]) \o <<":">> \o Pad2(dt[5]) \o <<":", "0", "0">>

\* hasattr(v, "isoformat")
HasIsoFormat(v) == v.t = "datetime"

serialize_doc(doc) ==
    LET out == IF "_id" \in DOMAIN doc
               THEN [k \in (DOMAIN doc \ {"_id"}) \cup {"id"} |->
                        IF k = "id" THEN StrV(OidStr(doc["_id"].id)) ELSE doc[k]]
               ELSE doc
    IN  [k \in DOMAIN out |-> IF HasIsoFormat(out[k]) THEN StrV(IsoFormat(out[k].dt))
                              ELSE out[k]]

SerializeAll(docs) == [i \in DOMAIN docs |-> serialize_doc(docs[i])]

(***************************************************************************)
(* list_homestays (src/main.py:89-127) and featured_homestays (130-135).   *)
(***************************************************************************)
DefaultLimit == 24
FeaturedDefaultLimit == 8

\* Variant: the availability check left out.
DbIsNone_Never == FALSE

\* db is None
DbIsNone == ~dbAvailable

Truthy(x) == x.t = "str" /\ x.s # <<>>
IsNotNone(x) == x.t # "none"

RegexCond(pat) == ("$regex" :> pat) @@ ("$options" :> "i")

QClause(q) ==
    IF Truthy(q)
    THEN "$or" :> <<[field |-> "title", cond |-> RegexCond(q.s)],
                    [field |-> "description", cond |-> RegexCond(q.s)],
                    [field |-> "location", cond |-> RegexCond(q.s)],
                    [field |-> "country", cond |-> RegexCond(q.s)]>>
    ELSE EmptyDict

CountryClause(country) ==
    IF Truthy(country)
    THEN "country" :> RegexCond(<<"^">> \o country.s \o <<"$">>)
    ELSE EmptyDict

\* Variant: "if minPrice:" / "if maxPrice:", which drops a bound of 0.
price_clause_truthy(minPrice, maxPrice) ==
    LET clause ==
            (IF IsNotNone(minPrice) /\ minPrice.n # 0 THEN "$gte" :> minPrice.n ELSE EmptyDict)
            @@ (IF IsNotNone(maxPrice) /\ maxPrice.n # 0 THEN "$lte" :> maxPrice.n ELSE EmptyDict)
    IN  IF DOMAIN clause # {} THEN "price_per_night" :> clause ELSE EmptyDict

price_clause(minPrice, maxPrice) ==
    LET clause ==
            (IF IsNotNone(minPrice) THEN "$gte" :> minPrice.n ELSE EmptyDict)
            @@ (IF IsNotNone(maxPrice) THEN "$lte" :> maxPrice.n ELSE EmptyDict)
    IN  IF DOMAIN clause # {} THEN "price_per_night" :> clause ELSE EmptyDict

GuestsClause(guests) ==
    IF IsNotNone(guests) THEN "max_guests" :> ("$gte" :> guests.n) ELSE EmptyDict

filter_query(p) ==
    QClause(p.q) @@ CountryClause(p.country) @@ price_clause(p.minPrice, p.maxPrice)
    @@ GuestsClause(p.guests)

\* limit: int = 24 / limit: int = 8
LimitParam(x, default) == IF x.t = "missing" THEN default ELSE x.n

Ok(b) == [status |-> 200, error |-> "none", detail |-> "", fields |-> {}, body |-> b]

StoreUnavailable == HTTPException(500, "StoreUnavailable", "Database not configured")

SearchUnchanged ==
    /\ served' = served + 1
    /\ UNCHANGED <<dbAvailable, handleKind, homestays, bookings, nextId, bpc, stages,
                parsed, inserts>>

ListResponse(p) ==
    IF DbIsNone THEN StoreUnavailable
    ELSE IF ~StoreLive THEN Unhandled("TypeError")
    ELSE Ok(SerializeAll(Find(filter_query(p), LimitParam(p.limit, DefaultLimit))))

list_homestays(p) ==
    /\ served < MaxRequests
    /\ op' = "list_homestays"
    /\ req' = p
    /\ resp' = ListResponse(p)
    /\ finds' = IF ~DbIsNone /\ StoreLive
                THEN <<[collection |-> "homestay", filter |-> filter_query(p),
                        limit |-> LimitParam(p.limit, DefaultLimit)]>>
                ELSE <<>>
    /\ SearchUnchanged

FeaturedResponse(limit) ==
    IF DbIsNone THEN StoreUnavailable
    ELSE IF ~StoreLive THEN Unhandled("TypeError")
    ELSE Ok(SerializeAll(Find(EmptyDict, LimitParam(limit, FeaturedDefaultLimit))))

featured_homestays(limit) ==
    /\ served < MaxRequests
    /\ op' = "featured_homestays"
    /\ req' = [limit |-> limit]
    /\ resp' = FeaturedResponse(limit)
    /\ finds' = IF ~DbIsNone /\ StoreLive
                THEN <<[collection |-> "homestay", filter |-> EmptyDict,
                        limit |-> LimitParam(limit, FeaturedDefaultLimit)]>>
                ELSE <<>>
    /\ SearchUnchanged

(***************************************************************************)
(* Search requests and stored documents of the model.                      *)
(***************************************************************************)
TLake == <<"l", "a", "k", "e">>
TJDotPan == <<"J", ".", "p", "a", "n">>

H1 == [k \in {"_id", "title", "description", "location", "country", "price_per_night",
              "max_guests", "created_at"} |->
         CASE k = "_id" -> Oid(161)
           [] k = "title" -> StrV(<<"R", "y", "o", "k", "a", "n">>)
           [] k = "description" -> StrV(<<"L", "a", "k", "e", "s", "i", "d", "e">>)
           [] k = "location" -> StrV(THakone)
           [] k = "country" -> StrV(<<"j", "a", "p", "a", "n">>)
           [] k = "price_per_night" -> IntV(75)
           [] k = "max_guests" -> IntV(4)
           [] k = "created_at" -> DateTime(2024, 2, 29, 10, 5)]

H2 == [k \in {"_id", "title", "description", "location", "country", "price_per_night",
              "max_guests"} |->
         CASE k = "_id" -> Oid(162)
           [] k = "title" -> StrV(TCabin)
           [] k = "description" -> NoneV
           [] k = "location" -> StrV(<<"N", "a", "g", "a", "n", "o">>)
           [] k = "country" -> StrV(<<"J", "a", "p", "a", "n", "e", "s", "e", " ", "A", "l", "p", "s">>)
           [] k = "price_per_night" -> IntV(150)
           [] k = "max_guests" -> IntV(2)]

\* A document with a date-time inside a nested mapping.
H3 == [k \in {"_id", "title", "description", "location", "country", "price_per_night",
              "max_guests", "meta"} |->
         CASE k = "_id" -> Oid(163)
           [] k = "title" -> StrV(<<"L", "o", "f", "t">>)
           [] k = "description" -> StrV(<<"C", "i", "t", "y">>)
           [] k = "location" -> StrV(<<"T", "o", "k", "y", "o">>)
           [] k = "country" -> StrV(TJapan)
           [] k = "price_per_night" -> IntV(50)
           [] k = "max_guests" -> IntV(6)
           [] k = "meta" -> DictV("checked_at" :> DateTime(2024, 3, 1, 9, 30))]

H4 == [k \in {"_id", "title", "description", "location", "country", "price_per_night",
              "max_guests"} |->
         CASE k = "_id" -> Oid(164)
           [] k = "title" -> StrV(<<"H", "u", "t">>)
           [] k = "description" -> StrV(<<"B", "y", " ", "t", "h", "e", " ", "L", "A", "K", "E">>)
           [] k = "location" -> StrV(<<"A", "n", "n", "e", "c", "y">>)
           [] k = "country" -> StrV(<<"F", "r", "a", "n", "c", "e">>)
           [] k = "price_per_night" -> IntV(100)
           [] k = "max_guests" -> IntV(1)]

AllDocs == <<H1, H2, H3, H4>>

StoreChoices == {SubSeq(AllDocs, 1, n) : n \in 0..Min(MaxStoreDocs, Len(AllDocs))}

LimitValues == {Missing, IntV(-1), IntV(0), IntV(1)}

\* Every combination of the filters with the default limit, and every limit
\* with every combination of q and country.
SearchParams ==
    [q : {NoneV, StrV(<<>>), StrV(TLake)},
     country : {NoneV, StrV(<<>>), StrV(TJapan), StrV(TJDotPan)},
     minPrice : {NoneV, IntV(0), IntV(60)},
     maxPrice : {NoneV, IntV(100)},
     guests : {NoneV, IntV(3)},
     limit : {Missing}]
    \cup
    [q : {NoneV, StrV(<<>>), StrV(TLake)},
     country : {NoneV, StrV(<<>>), StrV(TJapan), StrV(TJDotPan)},
     minPrice : {NoneV},
     maxPrice : {NoneV},
     guests : {NoneV},
     limit : LimitValues]

NoParams == [q |-> NoneV, country |-> NoneV, minPrice |-> NoneV, maxPrice |-> NoneV,
             guests |-> NoneV, limit |-> Missing]

InitSearch ==
    /\ dbAvailable \in BOOLEAN
    /\ handleKind = "subcollection"
    /\ homestays \in StoreChoices
    /\ bookings = <<>>
    /\ nextId = 200
    /\ op = "none"
    /\ req = NoParams
    /\ resp = NoResp
    /\ bpc = "Idle"
    /\ stages = <<>>
    /\ parsed = <<ValueError, ValueError>>
    /\ inserts = 0
    /\ finds = <<>>
    /\ served = 0

NextSearch ==
    \/ \E p \in SearchParams : list_homestays(p)
    \/ \E l \in LimitValues : featured_homestays(l)

SpecSearch == InitSearch /\ [][NextSearch]_vars

(***************************************************************************)
(* Claims about list_homestays and featured_homestays.                     *)
(***************************************************************************)
SearchOp == op \in {"list_homestays", "featured_homestays"}

\* C6: with the store handle unset, list/search and featured listings answer
\* 500 with the fixed StoreUnavailable detail whatever the parameters, and
\* issue no find operation.
C6_StoreUnavailable ==
    (SearchOp /\ ~dbAvailable) =>
        /\ resp.status = 500
        /\ resp.error = "StoreUnavailable"
        /\ resp.detail = "Database not configured"
        /\ finds = <<>>

\* A search with every filter given was refused while the store held documents.
C6_Witness ==
    /\ op = "list_homestays" /\ ~dbAvailable
    /\ req.q = StrV(TLake) /\ req.country = StrV(TJapan) /\ req.minPrice = IntV(60)
    /\ req.maxPrice = IntV(100) /\ req.guests = IntV(3)
    /\ homestays # <<>>
    /\ resp.status = 500
    /\ finds = <<>>

\* Case-insensitive substring, computed without the regular expression matcher.
ContainsCI(text, sub) ==
    \E i \in 1..(Len(text) - Len(sub) + 1) :
        LowerText(SubSeq(text, i, i + Len(sub) - 1)) = LowerText(sub)

FreeTextHolds(d, q) ==
    \E f \in {"title", "description", "location", "country"} :
        f \in DOMAIN d /\ d[f].t = "str" /\ ContainsCI(d[f].s, q)

FourFieldOr(q) ==
    <<[field |-> "title", cond |-> ("$regex" :> q) @@ ("$options" :> "i")],
      [field |-> "description", cond |-> ("$regex" :> q) @@ ("$options" :> "i")],
      [field |-> "location", cond |-> ("$regex" :> q) @@ ("$options" :> "i")],
      [field |-> "country", cond |-> ("$regex" :> q) @@ ("$options" :> "i")]>>

\* The predicate handed to find is the AND of exactly the constraints of the
\* parameters that contribute: qOn and countryOn say whether q and country do.
PredicateIsAndOf(qOn, countryOn) ==
    LET f == finds[1].filter
        minOn == req.minPrice.t # "none"
        maxOn == req.maxPrice.t # "none"
        guestsOn == req.guests.t # "none"
    IN  /\ DOMAIN f = (IF qOn THEN {"$or"} ELSE {})
                      \cup (IF countryOn THEN {"country"} ELSE {})
                      \cup (IF minOn \/ maxOn THEN {"price_per_night"} ELSE {})
                      \cup (IF guestsOn THEN {"max_guests"} ELSE {})
        /\ qOn => f["$or"] = FourFieldOr(req.q.s)
        /\ countryOn => DOMAIN f["country"] = {"$regex", "$options"}
        /\ (minOn \/ maxOn) =>
              /\ DOMAIN f["price_per_night"] = (IF minOn THEN {"$gte"} ELSE {})
                                               \cup (IF maxOn THEN {"$lte"} ELSE {})
              /\ minOn => f["price_per_night"]["$gte"] = req.minPrice.n
              /\ maxOn => f["price_per_night"]["$lte"] = req.maxPrice.n
        /\ guestsOn => f["max_guests"] = ("$gte" :> req.guests.n)
        /\ \A i \in DOMAIN homestays :
              LET d == homestays[i]
              IN  Matches(d, f) <=>
                     /\ qOn => FreeTextHolds(d, req.q.s)
                     /\ countryOn => MatchCond(d, "country", f["country"])
                     /\ minOn => d["price_per_night"].n >= req.minPrice.n
                     /\ maxOn => d["price_per_night"].n <= req.maxPrice.n
                     /\ guestsOn => d["max_guests"].n >= req.guests.n
        /\ (~qOn /\ ~countryOn /\ ~minOn /\ ~maxOn /\ ~guestsOn) =>
              /\ f = EmptyDict
              /\ \A i \in DOMAIN homestays : Matches(homestays[i], f)

ListServed == op = "list_homestays" /\ dbAvailable

C8_CountryExact ==
    (ListServed /\ "country" \in DOMAIN finds[1].filter) =>
        \A i \in DOMAIN homestays :
            MatchCond(homestays[i], "country", finds[1].filter["country"])
            <=> /\ homestays[i]["country"].t = "str"
                /\ LowerText(homestays[i]["country"].s) = LowerText(req.country.s)

\* C9: the limit handed to find is a positive integer, 24 when the parameter
\* is absent, and the response holds at most that many documents.
C9_PositiveLimit ==
    ListServed =>
        /\ finds[1].limit > 0
        /\ req.limit.t = "missing" => finds[1].limit = 24
        /\ Len(resp.body) <= finds[1].limit

RECURSIVE HasDateTime(_)
HasDateTime(x) ==
    \/ x.t = "datetime"
    \/ x.t = "dict" /\ \E k \in DOMAIN x.items : HasDateTime(x.items[k])
    \/ x.t = "list" /\ \E i \in DOMAIN x.elems : HasDateTime(x.elems[i])

\* out is the serialized form of the stored document d.
SerializedFrom(out, d) ==
    /\ "_id" \notin DOMAIN out
    /\ "id" \in DOMAIN out
    /\ out["id"] = StrV(OidStr(d["_id"].id))
    /\ \A k \in DOMAIN out : ~HasDateTime(out[k])
    /\ \A k \in DOMAIN d \ {"_id"} :
          /\ k \in DOMAIN out
          /\ d[k].t = "datetime" => out[k] = StrV(IsoFormat(d[k].dt))
          /\ ~HasDateTime(d[k]) => out[k] = d[k]

\* C10: every document of every list/search and featured response is the
\* serialized form of a stored document: no _id, id the identifier's string,
\* every date-time at any position an ISO-8601 string, the rest unchanged.
C10_Serialized ==
    (SearchOp /\ dbAvailable) =>
        \A i \in DOMAIN resp.body :
            \E j \in DOMAIN homestays : /\ homestays[j]["_id"].t = "oid"
                                        /\ SerializedFrom(resp.body[i], homestays[j])

====
